---- MODULE Spec2Model ----
(***************************************************************************)
(* Model of the `exception` package: the Option type (Some / NONE), the    *)
(* Result type (Ok / Err) and the two decorators as_option and as_result.  *)
(*                                                                         *)
(* A Python value is a record [t, n, s]: t is the name of its class, n its *)
(* number (for an exception object: its identity), s its text (for an      *)
(* exception object: its first argument).  An object is a record           *)
(* [tag, oid, val]: tag is "bare" for a plain Python value and the class   *)
(* name for a wrapper, oid is the identity of a wrapper object (0 for the  *)
(* module-level NONE and for bare values), val is the value (bare) or the  *)
(* payload held in _value / _err (wrapper).                                *)
(*                                                                         *)
(* Every method is an operator that returns what the call did:             *)
(* [raised, val, calls, used]: whether it raised, the object returned or   *)
(* raised, the calls it made to caller-supplied callables, and how many    *)
(* new objects it created.                                                 *)
(***************************************************************************)
EXTENDS Integers, Sequences, FiniteSets, TLC

VARIABLES cur, origin, op, out, nextId

vars == <<cur, origin, op, out, nextId>>

\* Largest object identity the model hands out: bounds how long a chain of
\* wrappers derived one from another can get.
MaxObjects == 5

(***************************************************************************)
(* Python values                                                           *)
(***************************************************************************)
PyNone == [t |-> "NoneType", n |-> 0, s |-> ""]
PyBool(b) == [t |-> "bool", n |-> IF b THEN 1 ELSE 0, s |-> ""]
PyInt(i) == [t |-> "int", n |-> i, s |-> ""]
PyStr(x) == [t |-> "str", n |-> 0, s |-> x]
\* The empty list []: n is the length of a list (only the empty list is used).
PyEmptyList == [t |-> "list", n |-> 0, s |-> ""]
\* An exception object of class kind, identity id, first argument msg.
PyExc(kind, id, msg) == [t |-> kind, n |-> id, s |-> msg]

\* The builtin exception hierarchy: the direct base class of each class used.
ExcParent ==
    [k \in {"BaseException", "Exception", "KeyboardInterrupt", "LookupError",
            "KeyError", "NameError", "AttributeError", "ValueError", "TypeError"} |->
        CASE k = "BaseException" -> "BaseException"
          [] k = "Exception" -> "BaseException"
          [] k = "KeyboardInterrupt" -> "BaseException"
          [] k = "KeyError" -> "LookupError"
          [] OTHER -> "Exception"]

ExcKinds == DOMAIN ExcParent

IsExc(v) == v.t \in ExcKinds

RECURSIVE IsSubclass(_, _)
\* issubclass(k, base) over the hierarchy above.
IsSubclass(k, base) ==
    IF k = base THEN TRUE
    ELSE IF ExcParent[k] = k THEN FALSE
    ELSE IsSubclass(ExcParent[k], base)

IsNum(v) == v.t \in {"bool", "int"}

\* Python's a == b on plain values: bool is an int, so False == 0 and True == 1;
\* str against str by text; None only equals None; [] == []; exception classes define no
\* __eq__, so two exception objects are equal iff they are the same object.
PyEq(a, b) ==
    IF IsNum(a) /\ IsNum(b) THEN a.n = b.n
    ELSE IF a.t = "str" /\ b.t = "str" THEN a.s = b.s
    ELSE IF a.t = "list" /\ b.t = "list" THEN a.n = b.n
    ELSE IF a.t = "NoneType" /\ b.t = "NoneType" THEN TRUE
    ELSE IF IsExc(a) /\ IsExc(b) THEN a.n = b.n
    ELSE FALSE

\* Python's truth value of a plain value (bool(v)), which the code never takes.
PyTruth(v) ==
    IF IsNum(v) THEN v.n # 0
    ELSE IF v.t = "str" THEN v.s # ""
    ELSE IF v.t = "list" THEN v.n # 0
    ELSE IF v.t = "NoneType" THEN FALSE
    ELSE TRUE

(***************************************************************************)
(* Objects and call outcomes                                               *)
(***************************************************************************)
Bare(v) == [tag |-> "bare", oid |-> 0, val |-> v]
Wrap(tag, oid, v) == [tag |-> tag, oid |-> oid, val |-> v]

\* NONE: Option[Any] = _NONE(), built once when the module is imported.
NONE == [tag |-> "NONE", oid |-> 0, val |-> PyNone]

Returned(o, calls, used) == [raised |-> FALSE, val |-> o, calls |-> calls, used |-> used]
Raised(e, calls, used) == [raised |-> TRUE, val |-> Bare(e), calls |-> calls, used |-> used]

\* One call of a caller-supplied callable f with args and kw; kw is a set of
\* [k, v] records, one per keyword argument.
CallKw(f, args, kw) == [fn |-> f, args |-> args, kw |-> kw]
CallOf(f, args) == CallKw(f, args, {})

(***************************************************************************)
(* Caller-supplied callables.  Apply(f, args, fresh) is what calling f     *)
(* with the positional arguments args does when fresh is the next free     *)
(* object identity: [raised, val, used].                                   *)
(*   ident          lambda x: x                                            *)
(*   to_none        lambda x: None                                         *)
(*   succ           lambda x: x + 1                                        *)
(*   other          lambda: "other"                                        *)
(*   const_b        lambda _: "b"                                          *)
(*   new_name_error lambda _: NameError()                                  *)
(*   boom           a function of any arguments: raise NameError("boom")   *)
(***************************************************************************)
Arity(f) == IF f = "other" THEN 0 ELSE 1

FnResult(raised, o, used) == [raised |-> raised, val |-> o, used |-> used]

Apply(f, args, fresh) ==
    IF f = "boom" THEN FnResult(TRUE, Bare(PyExc("NameError", fresh, "boom")), 1)
    ELSE IF Len(args) # Arity(f)
        THEN FnResult(TRUE, Bare(PyExc("TypeError", fresh, "arguments")), 1)
    ELSE CASE f = "ident" -> FnResult(FALSE, args[1], 0)
           [] f = "to_none" -> FnResult(FALSE, Bare(PyNone), 0)
           [] f = "succ" ->
                IF args[1].tag = "bare" /\ IsNum(args[1].val)
                    THEN FnResult(FALSE, Bare(PyInt(args[1].val.n + 1)), 0)
                    ELSE FnResult(TRUE, Bare(PyExc("TypeError", fresh, "unsupported operand")), 1)
           [] f = "other" -> FnResult(FALSE, Bare(PyStr("other")), 0)
           [] f = "const_b" -> FnResult(FALSE, Bare(PyStr("b")), 0)
           [] f = "new_name_error" -> FnResult(FALSE, Bare(PyExc("NameError", fresh, "")), 1)

(***************************************************************************)
(* Option: class Some                                                      *)
(***************************************************************************)
Some_init(oid, value) == Wrap("Some", oid, value)

Some_eq(self, other) ==
    IF other.tag = "Some" THEN PyEq(self.val, other.val) ELSE FALSE

Some_is_some(self) == Returned(Bare(PyBool(TRUE)), <<>>, 0)

Some_is_none(self) == Returned(Bare(PyBool(FALSE)), <<>>, 0)

Some_unwrap(self) == Returned(Bare(self.val), <<>>, 0)

Some_unwrap_or(self, default) == Returned(Bare(self.val), <<>>, 0)

\* Faulty variant of Some.unwrap_or_else: calls the supplier although a value is held.
Some_unwrap_or_else_eager(self, f, fresh) ==
    LET r == Apply(f, <<>>, fresh)
    IN  IF r.raised THEN [raised |-> TRUE, val |-> r.val, calls |-> <<CallOf(f, <<>>)>>, used |-> r.used]
        ELSE Returned(Bare(self.val), <<CallOf(f, <<>>)>>, r.used)

Some_unwrap_or_else(self, f, fresh) == Some_unwrap(self)

\* Faulty variant of Some.map: a None from op becomes NONE instead of Some(None).
Some_map_unwrapped(self, f, fresh) ==
    LET arg == Some_unwrap(self).val
        r == Apply(f, <<arg>>, fresh)
        calls == <<CallOf(f, <<arg>>)>>
    IN  IF r.raised THEN [raised |-> TRUE, val |-> r.val, calls |-> calls, used |-> r.used]
        ELSE IF r.val.val.t = "NoneType" THEN Returned(NONE, calls, r.used)
        ELSE Returned(Some_init(fresh + r.used, r.val.val), calls, r.used + 1)

Some_map(self, f, fresh) ==
    LET arg == Some_unwrap(self).val
        r == Apply(f, <<arg>>, fresh)
        calls == <<CallOf(f, <<arg>>)>>
    IN  IF r.raised THEN [raised |-> TRUE, val |-> r.val, calls |-> calls, used |-> r.used]
        ELSE Returned(Some_init(fresh + r.used, r.val.val), calls, r.used + 1)

Some_expect(self, msg) == Returned(Bare(self.val), <<>>, 0)

(***************************************************************************)
(* Option: class _NONE                                                     *)
(***************************************************************************)
NONE_eq(self, other) == other.tag = "NONE"

NONE_is_some(self) == Returned(Bare(PyBool(FALSE)), <<>>, 0)

NONE_is_none(self) == Returned(Bare(PyBool(TRUE)), <<>>, 0)

NONE_unwrap(self, fresh) ==
    Raised(PyExc("ValueError", fresh, "Trying to unwrap a NONE instance."), <<>>, 1)

NONE_unwrap_or(self, default) == Returned(default, <<>>, 0)

NONE_unwrap_or_else(self, f, fresh) ==
    LET r == Apply(f, <<>>, fresh)
    IN  [raised |-> r.raised, val |-> r.val, calls |-> <<CallOf(f, <<>>)>>, used |-> r.used]

NONE_map(self, f, fresh) == Returned(NONE, <<>>, 0)

NONE_expect(self, msg, fresh) == Raised(PyExc("ValueError", fresh, msg.val.s), <<>>, 1)

(***************************************************************************)
(* Option: the abstract methods, resolved on the class of the receiver     *)
(***************************************************************************)
Option_is_some(self) ==
    IF self.tag = "Some" THEN Some_is_some(self) ELSE NONE_is_some(self)

Option_is_none(self) ==
    IF self.tag = "Some" THEN Some_is_none(self) ELSE NONE_is_none(self)

Option_unwrap(self, fresh) ==
    IF self.tag = "Some" THEN Some_unwrap(self) ELSE NONE_unwrap(self, fresh)

Option_unwrap_or(self, default) ==
    IF self.tag = "Some" THEN Some_unwrap_or(self, default) ELSE NONE_unwrap_or(self, default)

Option_unwrap_or_else(self, f, fresh) ==
    IF self.tag = "Some" THEN Some_unwrap_or_else(self, f, fresh)
    ELSE NONE_unwrap_or_else(self, f, fresh)

Option_map(self, f, fresh) ==
    IF self.tag = "Some" THEN Some_map(self, f, fresh) ELSE NONE_map(self, f, fresh)

Option_expect(self, msg, fresh) ==
    IF self.tag = "Some" THEN Some_expect(self, msg) ELSE NONE_expect(self, msg, fresh)

\* The property Option.value: return self.unwrap()
Option_value(self, fresh) == Option_unwrap(self, fresh)

(***************************************************************************)
(* Result: class Ok                                                        *)
(***************************************************************************)
Ok_init(oid, value) == Wrap("Ok", oid, value)

Ok_eq(self, other) ==
    IF other.tag = "Ok" THEN PyEq(self.val, other.val) ELSE FALSE

Ok_is_ok(self) == Returned(Bare(PyBool(TRUE)), <<>>, 0)

Ok_is_err(self) == Returned(Bare(PyBool(FALSE)), <<>>, 0)

Ok_ok(self, fresh) == Returned(Some_init(fresh, self.val), <<>>, 1)

Ok_err(self) == Returned(NONE, <<>>, 0)

Ok_unwrap(self) == Returned(Bare(self.val), <<>>, 0)

Ok_unwrap_or(self, default) == Ok_unwrap(self)

Ok_unwrap_or_else(self, f, fresh) == Ok_unwrap(self)

Ok_expect(self, msg) == Returned(Bare(self.val), <<>>, 0)

(***************************************************************************)
(* Result: class Err                                                       *)
(***************************************************************************)
Err_init(oid, err) == Wrap("Err", oid, err)

\* Faulty variant of Err.__eq__: compares class and message instead of the objects.
Err_eq_by_value(self, other) ==
    IF other.tag = "Err"
        THEN self.val.t = other.val.t /\ self.val.s = other.val.s
        ELSE FALSE

Err_eq(self, other) ==
    IF other.tag = "Err" THEN PyEq(self.val, other.val) ELSE FALSE

Err_is_ok(self) == Returned(Bare(PyBool(FALSE)), <<>>, 0)

Err_is_err(self) == Returned(Bare(PyBool(TRUE)), <<>>, 0)

\* Faulty variant of Err.ok: raises the held error instead of returning NONE.
Err_ok_unwrapping(self) == Raised(self.val, <<>>, 0)

Err_ok(self) == Returned(NONE, <<>>, 0)

Err_err(self, fresh) == Returned(Some_init(fresh, self.val), <<>>, 1)

\* Faulty variant of Err.unwrap: raises a new ValueError with the held message.
Err_unwrap_wrapping(self, fresh) ==
    Raised(PyExc("ValueError", fresh, self.val.s), <<>>, 1)

\* raise self._err: the held object itself is raised, nothing is created.
Err_unwrap(self, fresh) == Raised(self.val, <<>>, 0)

Err_unwrap_or(self, default) == Returned(default, <<>>, 0)

Err_unwrap_or_else(self, f, fresh) ==
    LET r == Apply(f, <<Bare(self.val)>>, fresh)
    IN  [raised |-> r.raised, val |-> r.val,
         calls |-> <<CallOf(f, <<Bare(self.val)>>)>>, used |-> r.used]

\* Faulty variant of Err.expect: raises the held error, as unwrap does.
Err_expect_reraising(self, msg, fresh) == Err_unwrap(self, fresh)

Err_expect(self, msg, fresh) == Raised(PyExc("ValueError", fresh, msg.val.s), <<>>, 1)

(***************************************************************************)
(* Result: the abstract methods and map_error                              *)
(***************************************************************************)
Result_is_ok(self) ==
    IF self.tag = "Ok" THEN Ok_is_ok(self) ELSE Err_is_ok(self)

Result_is_err(self) ==
    IF self.tag = "Ok" THEN Ok_is_err(self) ELSE Err_is_err(self)

Result_ok(self, fresh) ==
    IF self.tag = "Ok" THEN Ok_ok(self, fresh) ELSE Err_ok(self)

Result_err(self, fresh) ==
    IF self.tag = "Ok" THEN Ok_err(self) ELSE Err_err(self, fresh)

Result_unwrap(self, fresh) ==
    IF self.tag = "Ok" THEN Ok_unwrap(self) ELSE Err_unwrap(self, fresh)

Result_unwrap_or(self, default) ==
    IF self.tag = "Ok" THEN Ok_unwrap_or(self, default) ELSE Err_unwrap_or(self, default)

Result_unwrap_or_else(self, f, fresh) ==
    IF self.tag = "Ok" THEN Ok_unwrap_or_else(self, f, fresh)
    ELSE Err_unwrap_or_else(self, f, fresh)

Result_expect(self, msg, fresh) ==
    IF self.tag = "Ok" THEN Ok_expect(self, msg) ELSE Err_expect(self, msg, fresh)

\* Faulty variant of Result.map_error: hands op the error itself, not Some(error).
Result_map_error_raw(self, g, fresh) ==
    LET r == Apply(g, <<Bare(self.val)>>, fresh)
        calls == <<CallOf(g, <<Bare(self.val)>>)>>
    IN  IF r.raised THEN [raised |-> TRUE, val |-> r.val, calls |-> calls, used |-> r.used]
        ELSE Returned(Err_init(fresh + r.used, r.val.val), calls, r.used + 1)

\* if self.is_err(): return Err(op(self.err()));  return self
Result_map_error(self, g, fresh) ==
    IF Result_is_err(self).val.val.n = 1
        THEN LET e == Result_err(self, fresh)
                 r == Apply(g, <<e.val>>, fresh + e.used)
                 calls == <<CallOf(g, <<e.val>>)>>
             IN  IF r.raised
                    THEN [raised |-> TRUE, val |-> r.val, calls |-> calls,
                          used |-> e.used + r.used]
                    ELSE Returned(Err_init(fresh + e.used + r.used, r.val.val), calls,
                                  e.used + r.used + 1)
        ELSE Returned(self, <<>>, 0)

(***************************************************************************)
(* Python's a == b on objects: the __eq__ of the left operand's class; a   *)
(* plain value on the left answers NotImplemented for a wrapper, and the   *)
(* reflected __eq__ of the wrapper on the right decides.                   *)
(***************************************************************************)
Dunder_eq(self, other) ==
    CASE self.tag = "Some" -> Some_eq(self, other)
      [] self.tag = "NONE" -> NONE_eq(self, other)
      [] self.tag = "Ok" -> Ok_eq(self, other)
      [] self.tag = "Err" -> Err_eq(self, other)

PyObjEq(a, b) ==
    IF a.tag # "bare" THEN Dunder_eq(a, b)
    ELSE IF b.tag # "bare" THEN Dunder_eq(b, a)
    ELSE PyEq(a.val, b.val)

(***************************************************************************)
(* Functions handed to the decorators.  Invoke(func, args, kw, fresh) is   *)
(* what calling func with args and kw does: [raised, val, used].  Each takes the one   *)
(* parameter `data`, positionally or by keyword.                           *)
(*   sample_function      return 42 if data == "a" else None               *)
(*   echo                 return data                                      *)
(*   alt_sample_function  "a": return 42; "b": raise NameError;            *)
(*                        otherwise raise AttributeError                   *)
(*   lookup               return {"a": 42}[data]   (KeyError otherwise)    *)
(*   interrupted          raise KeyboardInterrupt                          *)
(***************************************************************************)
Invoke(func, args, kw, fresh) ==
    IF Len(args) + Cardinality(kw) # 1 \/ \E e \in kw : e.k # "data"
        THEN FnResult(TRUE, Bare(PyExc("TypeError", fresh, "arguments")), 1)
    ELSE LET data == IF Len(args) = 1 THEN args[1] ELSE (CHOOSE e \in kw : TRUE).v
             isA == PyObjEq(data, Bare(PyStr("a")))
             isB == PyObjEq(data, Bare(PyStr("b")))
         IN  CASE func = "sample_function" ->
                    FnResult(FALSE, IF isA THEN Bare(PyInt(42)) ELSE Bare(PyNone), 0)
               [] func = "echo" -> FnResult(FALSE, data, 0)
               [] func = "alt_sample_function" ->
                    IF isA THEN FnResult(FALSE, Bare(PyInt(42)), 0)
                    ELSE IF isB THEN FnResult(TRUE, Bare(PyExc("NameError", fresh, "")), 1)
                    ELSE FnResult(TRUE, Bare(PyExc("AttributeError", fresh, "")), 1)
               [] func = "lookup" ->
                    IF isA THEN FnResult(FALSE, Bare(PyInt(42)), 0)
                    ELSE FnResult(TRUE, Bare(PyExc("KeyError", fresh, data.val.s)), 1)
               [] func = "interrupted" ->
                    FnResult(TRUE, Bare(PyExc("KeyboardInterrupt", fresh, "")), 1)

(***************************************************************************)
(* as_option                                                               *)
(***************************************************************************)
\* Faulty variant of as_option: tests the truth value of the result (`if result:`).
as_option_wrapper_truthy(func, args, kw, fresh) ==
    LET r == Invoke(func, args, kw, fresh)
        calls == <<CallKw(func, args, kw)>>
    IN  IF r.raised THEN [raised |-> TRUE, val |-> r.val, calls |-> calls, used |-> r.used]
        ELSE IF ~PyTruth(r.val.val) THEN Returned(NONE, calls, r.used)
        ELSE Returned(Some_init(fresh + r.used, r.val.val), calls, r.used + 1)

\* return NONE if (the result of func) is None else Some(result)
as_option_wrapper(func, args, kw, fresh) ==
    LET r == Invoke(func, args, kw, fresh)
        calls == <<CallKw(func, args, kw)>>
    IN  IF r.raised THEN [raised |-> TRUE, val |-> r.val, calls |-> calls, used |-> r.used]
        ELSE IF r.val.val.t = "NoneType" THEN Returned(NONE, calls, r.used)
        ELSE Returned(Some_init(fresh + r.used, r.val.val), calls, r.used + 1)

(***************************************************************************)
(* as_result                                                               *)
(***************************************************************************)
\* Faulty variant of as_result: no default, an empty selector tuple stays empty.
as_result_exceptions_as_given(exceptions) == exceptions

\* if not exceptions: exceptions = (Exception,)
as_result_exceptions(exceptions) ==
    IF exceptions = {} THEN {"Exception"} ELSE exceptions

\* `except exceptions as exc`: exc is caught iff it is an instance of one of the
\* classes, that is, its class is one of them or a subclass of one.
ExceptMatches(exc, exceptions) == \E c \in exceptions : IsSubclass(exc.t, c)

\* Faulty variant of the wrapper: a bare `except` that ignores the selectors.
as_result_wrapper_catch_all(exceptions, func, args, kw, fresh) ==
    LET r == Invoke(func, args, kw, fresh)
        calls == <<CallKw(func, args, kw)>>
    IN  IF ~r.raised THEN Returned(Ok_init(fresh + r.used, r.val.val), calls, r.used + 1)
        ELSE Returned(Err_init(fresh + r.used, r.val.val), calls, r.used + 1)

as_result_wrapper(exceptions, func, args, kw, fresh) ==
    LET r == Invoke(func, args, kw, fresh)
        calls == <<CallKw(func, args, kw)>>
    IN  IF ~r.raised THEN Returned(Ok_init(fresh + r.used, r.val.val), calls, r.used + 1)
        ELSE IF ExceptMatches(r.val.val, exceptions)
            THEN Returned(Err_init(fresh + r.used, r.val.val), calls, r.used + 1)
        ELSE [raised |-> TRUE, val |-> r.val, calls |-> calls, used |-> r.used]

\* The decorated function: as_result(exceptions) applied to func, then called.
as_result(exceptions, func, args, kw, fresh) ==
    as_result_wrapper(as_result_exceptions(exceptions), func, args, kw, fresh)

(***************************************************************************)
(* The inputs the calling code draws from                                  *)
(***************************************************************************)
\* Payloads: None, False, 0, 1, "" and "0".
PayloadVals == {PyNone, PyBool(FALSE), PyInt(0), PyInt(1), PyStr(""), PyStr("0")}
\* Arguments of the decorated functions: "a", "b", "c" and the falsy values.
DataVals ==
    {PyStr("a"), PyStr("b"), PyStr("c"), PyNone, PyBool(FALSE), PyInt(0), PyStr(""),
     PyEmptyList}
\* Arguments of the functions decorated with as_result.
ResultDataVals == {PyStr("a"), PyStr("b"), PyStr("c"), PyInt(0)}
ErrKinds == {"ValueError", "TypeError"}
ErrMsgs == {"some error", "exception"}
ExpectMsgs == {"expected a", "some error"}
Defaults == {PyStr("other"), PyNone}
MapFns == {"ident", "to_none", "succ", "boom"}
Suppliers == {"other", "boom"}
Handlers == {"const_b", "ident", "boom"}
ErrorMappers == {"new_name_error", "boom"}
OptionFuncs == {"sample_function", "echo", "alt_sample_function"}
ResultFuncs == {"alt_sample_function", "lookup", "interrupted", "echo"}
SelectorSets ==
    {{}, {"NameError"}, {"LookupError"}, {"NameError", "AttributeError"}, {"BaseException"}}

NoArg == Bare(PyNone)

\* The ways a caller passes the one argument d: positionally or as data=d.
CallShapes(d) ==
    {[args |-> <<Bare(d)>>, kw |-> {}], [args |-> <<>>, kw |-> {[k |-> "data", v |-> Bare(d)]}]}

OpRec(name, self, f, arg, args, kw, sel, fresh) ==
    [name |-> name, self |-> self, f |-> f, arg |-> arg, args |-> args, kw |-> kw,
     sel |-> sel, fresh |-> fresh]

IsOption(o) == o.tag \in {"Some", "NONE"}
IsResult(o) == o.tag \in {"Ok", "Err"}

(***************************************************************************)
(* State.  cur is the object the calling code holds, origin the call that  *)
(* produced it, op the last call made and out what it did.  nextId is the  *)
(* next free object identity: identities only ever get compared, so the    *)
(* objects the caller no longer holds give theirs back (a constructor or a *)
(* decorated function starts again from 1; a call whose result is not kept *)
(* leaves nextId alone).                                                   *)
(*                                                                         *)
(* Init: the package has been imported; NONE exists, nothing was called.   *)
(***************************************************************************)
Init ==
    /\ cur = NONE
    /\ origin = "module"
    /\ op = OpRec("import", NONE, "", NoArg, <<>>, {}, {}, 1)
    /\ out = Returned(NONE, <<>>, 0)
    /\ nextId = 1

\* A method call on the current object: record the call and what it did.
Do(name, f, arg, r) ==
    /\ nextId + r.used - 1 <= MaxObjects
    /\ op' = OpRec(name, cur, f, arg, <<>>, {}, {}, nextId)
    /\ out' = r
    /\ UNCHANGED <<cur, origin, nextId>>

\* A call that does not start from the current object (a constructor, a decorated
\* function): what it returns, if it is a wrapper, becomes the current object.
Produce(o, r) ==
    /\ op' = o
    /\ out' = r
    /\ cur' = IF ~r.raised /\ r.val.tag # "bare" THEN r.val ELSE NONE
    /\ origin' = IF ~r.raised /\ r.val.tag # "bare" THEN o.name ELSE "module"
    /\ nextId' = 1 + r.used

NewSome ==
    /\ \E v \in PayloadVals :
        LET obj == Some_init(1, v)
        IN  Produce(OpRec("Some", NONE, "", Bare(v), <<>>, {}, {}, 1),
                Returned(obj, <<>>, 1))

UseNONE ==
    /\ Produce(OpRec("NONE", NONE, "", NoArg, <<>>, {}, {}, 1), Returned(NONE, <<>>, 0))

NewOk ==
    /\ \E v \in PayloadVals :
        LET obj == Ok_init(1, v)
        IN  Produce(OpRec("Ok", NONE, "", Bare(v), <<>>, {}, {}, 1),
                Returned(obj, <<>>, 1))

\* Err(kind(msg)): the exception object is created first, then the Err.
NewErr ==
    /\ \E kind \in ErrKinds, msg \in ErrMsgs :
        LET e == PyExc(kind, 1, msg)
        IN  Produce(OpRec("Err", NONE, "", Bare(e), <<>>, {}, {}, 1),
                    Returned(Err_init(2, e), <<>>, 2))

\* The caller keeps the wrapper a method returned and goes on with it.
Bind ==
    /\ ~out.raised
    /\ out.val.tag # "bare"
    /\ out.val # cur
    /\ cur' = out.val
    /\ origin' = op.name
    /\ nextId' = op.fresh + out.used
    /\ UNCHANGED <<op, out>>

IsSome == IsOption(cur) /\ Do("is_some", "", NoArg, Option_is_some(cur))

IsNone == IsOption(cur) /\ Do("is_none", "", NoArg, Option_is_none(cur))

OptionUnwrap == IsOption(cur) /\ Do("unwrap", "", NoArg, Option_unwrap(cur, nextId))

OptionValue == IsOption(cur) /\ Do("value", "", NoArg, Option_value(cur, nextId))

OptionUnwrapOr ==
    /\ IsOption(cur)
    /\ \E d \in Defaults : Do("unwrap_or", "", Bare(d), Option_unwrap_or(cur, Bare(d)))

OptionUnwrapOrElse ==
    /\ IsOption(cur)
    /\ \E f \in Suppliers : Do("unwrap_or_else", f, NoArg, Option_unwrap_or_else(cur, f, nextId))

OptionMap ==
    /\ IsOption(cur)
    /\ \E f \in MapFns : Do("map", f, NoArg, Option_map(cur, f, nextId))

OptionExpect ==
    /\ IsOption(cur)
    /\ \E m \in ExpectMsgs :
        Do("expect", "", Bare(PyStr(m)), Option_expect(cur, Bare(PyStr(m)), nextId))

IsOk == IsResult(cur) /\ Do("is_ok", "", NoArg, Result_is_ok(cur))

IsErr == IsResult(cur) /\ Do("is_err", "", NoArg, Result_is_err(cur))

ResultOk == IsResult(cur) /\ Do("ok", "", NoArg, Result_ok(cur, nextId))

ResultErr == IsResult(cur) /\ Do("err", "", NoArg, Result_err(cur, nextId))

ResultUnwrap == IsResult(cur) /\ Do("unwrap", "", NoArg, Result_unwrap(cur, nextId))

ResultUnwrapOr ==
    /\ IsResult(cur)
    /\ \E d \in Defaults : Do("unwrap_or", "", Bare(d), Result_unwrap_or(cur, Bare(d)))

ResultUnwrapOrElse ==
    /\ IsResult(cur)
    /\ \E f \in Handlers : Do("unwrap_or_else", f, NoArg, Result_unwrap_or_else(cur, f, nextId))

ResultExpect ==
    /\ IsResult(cur)
    /\ \E m \in ExpectMsgs :
        Do("expect", "", Bare(PyStr(m)), Result_expect(cur, Bare(PyStr(m)), nextId))

ResultMapError ==
    /\ IsResult(cur)
    /\ \E g \in ErrorMappers : Do("map_error", g, NoArg, Result_map_error(cur, g, nextId))

\* The objects the current one is compared with, each with the number of objects
\* building it takes: plain values, NONE, a new Some / Ok of each payload, the
\* current object itself and, for a held error, the error itself, a new Err and a
\* new Some of the same error object, and a new Err of a new error of the same
\* class and message.
Others ==
    {[obj |-> Bare(v), used |-> 0] : v \in PayloadVals}
    \cup {[obj |-> NONE, used |-> 0], [obj |-> cur, used |-> 0]}
    \cup {[obj |-> Some_init(nextId, v), used |-> 1] : v \in PayloadVals}
    \cup {[obj |-> Ok_init(nextId, v), used |-> 1] : v \in PayloadVals}
    \cup (IF IsExc(cur.val)
            THEN {[obj |-> Err_init(nextId, cur.val), used |-> 1],
                  [obj |-> Some_init(nextId, cur.val), used |-> 1],
                  [obj |-> Bare(cur.val), used |-> 0],
                  [obj |-> Err_init(nextId + 1, PyExc(cur.val.t, nextId, cur.val.s)),
                   used |-> 2]}
            ELSE {[obj |-> Err_init(nextId + 1, PyExc("ValueError", nextId, "some error")),
                   used |-> 2]})

\* cur == other
Eq ==
    \E o \in Others :
        Do("eq", "", o.obj, Returned(Bare(PyBool(PyObjEq(cur, o.obj))), <<>>, o.used))

\* other == cur
ReflectedEq ==
    \E o \in Others :
        Do("req", "", o.obj, Returned(Bare(PyBool(PyObjEq(o.obj, cur))), <<>>, o.used))

CallAsOption ==
    /\ \E func \in OptionFuncs, d \in DataVals :
        \E c \in CallShapes(d) :
            Produce(OpRec("as_option", NONE, func, NoArg, c.args, c.kw, {}, 1),
                    as_option_wrapper(func, c.args, c.kw, 1))

CallAsResult ==
    /\ \E sel \in SelectorSets, func \in ResultFuncs, d \in ResultDataVals :
        Produce(OpRec("as_result", NONE, func, NoArg, <<Bare(d)>>, {}, sel, 1),
                as_result(sel, func, <<Bare(d)>>, {}, 1))

Next ==
    \/ NewSome \/ UseNONE \/ NewOk \/ NewErr \/ Bind
    \/ IsSome \/ IsNone \/ OptionUnwrap \/ OptionValue \/ OptionUnwrapOr
    \/ OptionUnwrapOrElse \/ OptionMap \/ OptionExpect
    \/ IsOk \/ IsErr \/ ResultOk \/ ResultErr \/ ResultUnwrap \/ ResultUnwrapOr
    \/ ResultUnwrapOrElse \/ ResultExpect \/ ResultMapError
    \/ Eq \/ ReflectedEq \/ CallAsOption \/ CallAsResult

Spec == Init /\ [][Next]_vars

(***************************************************************************)
(* Properties                                                              *)
(***************************************************************************)
\* The classes an exception of class k is an instance of, written out from
\* Python's builtin exception hierarchy.
ClassesOf(k) ==
    CASE k = "BaseException" -> {"BaseException"}
      [] k = "Exception" -> {"Exception", "BaseException"}
      [] k = "KeyboardInterrupt" -> {"KeyboardInterrupt", "BaseException"}
      [] k = "KeyError" -> {"KeyError", "LookupError", "Exception", "BaseException"}
      [] OTHER -> {k, "Exception", "BaseException"}

\* What the decorated function itself did in the last as_option / as_result call.
Wrapped == Invoke(op.f, op.args, op.kw, op.fresh)

IsTrue(o) == o = Bare(PyBool(TRUE))

\* C1: a function decorated by as_result with at least one selector: a return of r
\* gives Ok(r); a raised exception that is an instance of one of the selectors gives
\* Err holding that very exception object and nothing is raised; a raised exception
\* that is an instance of none of them gives no Result and propagates unchanged.
C1_AsResultSelective ==
    (op.name = "as_result" /\ op.sel # {}) =>
        /\ ~Wrapped.raised =>
            ~out.raised /\ out.val.tag = "Ok" /\ out.val.val = Wrapped.val.val
        /\ (Wrapped.raised /\ ClassesOf(Wrapped.val.val.t) \cap op.sel # {}) =>
            ~out.raised /\ out.val.tag = "Err" /\ out.val.val = Wrapped.val.val
        /\ (Wrapped.raised /\ ClassesOf(Wrapped.val.val.t) \cap op.sel = {}) =>
            out.raised /\ out.val = Wrapped.val

\* as_result(NameError) around alt_sample_function, called with "c": the
\* AttributeError comes out of the call.
C1_Witness ==
    /\ op.name = "as_result" /\ op.sel = {"NameError"} /\ op.f = "alt_sample_function"
    /\ op.args = <<Bare(PyStr("c"))>>
    /\ out.raised /\ out.val.val.t = "AttributeError"

C3_MapError ==
    op.name = "map_error" =>
        IF op.self.tag = "Ok"
            THEN out = Returned(op.self, <<>>, 0)
            ELSE /\ Len(out.calls) = 1
                 /\ out.calls[1].fn = op.f
                 /\ out.calls[1].kw = {}
                 /\ Len(out.calls[1].args) = 1
                 /\ out.calls[1].args[1].tag = "Some"
                 /\ out.calls[1].args[1].val = op.self.val
                 /\ \E k \in op.fresh .. op.fresh + 1 :
                        LET r == Apply(op.f, out.calls[1].args, k)
                        IN  /\ out.raised = r.raised
                            /\ ~r.raised =>
                                /\ out.val.tag = "Err"
                                /\ out.val.oid # op.self.oid
                                /\ out.val.val = r.val.val

C3_Witness ==
    /\ op.name = "map_error" /\ op.self.tag = "Err" /\ op.f = "new_name_error"
    /\ ~out.raised /\ out.val.tag = "Err" /\ out.val.val.t = "NameError"

\* C4: Some(v).map(f) calls f exactly once, on v, and, when f returns, gives
\* Some(f(v)), a Some even when f(v) is None; NONE.map(f) gives NONE and never
\* calls f.
C4_OptionMap ==
    op.name = "map" =>
        IF op.self.tag = "Some"
            THEN /\ out.calls = <<CallOf(op.f, <<Bare(op.self.val)>>)>>
                 /\ LET r == Apply(op.f, <<Bare(op.self.val)>>, op.fresh)
                    IN  ~r.raised =>
                            ~out.raised /\ out.val.tag = "Some" /\ out.val.val = r.val.val
            ELSE out = Returned(NONE, <<>>, 0)

C4_Witness ==
    /\ op.name = "map" /\ op.self.tag = "Some" /\ op.f = "to_none"
    /\ ~out.raised /\ out.val.tag = "Some" /\ out.val.val = PyNone

\* C5: unwrap_or_else is lazy: on Some(v) and Ok(v) it returns v and calls nothing;
\* on NONE it calls the supplier once with no argument and returns its result; on
\* Err(e) it calls the handler once with e as only argument and returns its result.
C5_UnwrapOrElseLazy ==
    op.name = "unwrap_or_else" =>
        CASE op.self.tag \in {"Some", "Ok"} -> out = Returned(Bare(op.self.val), <<>>, 0)
          [] op.self.tag = "NONE" ->
                LET r == Apply(op.f, <<>>, op.fresh)
                IN  /\ out.calls = <<CallOf(op.f, <<>>)>>
                    /\ out.raised = r.raised /\ out.val = r.val
          [] op.self.tag = "Err" ->
                LET r == Apply(op.f, <<Bare(op.self.val)>>, op.fresh)
                IN  /\ out.calls = <<CallOf(op.f, <<Bare(op.self.val)>>)>>
                    /\ out.raised = r.raised /\ out.val = r.val

\* Some(v).unwrap_or_else(boom) returns v: boom, which would raise, was not called.
C5_Witness ==
    /\ op.name = "unwrap_or_else" /\ op.self.tag = "Some" /\ op.f = "boom"
    /\ out = Returned(Bare(op.self.val), <<>>, 0)

\* What C6 says of expect on Some / Ok and of the message, shared by both forms.
ExpectBasics ==
    IF op.self.tag \in {"NONE", "Err"}
        THEN /\ out.raised
             /\ out.val.val.t = "ValueError"
             /\ out.val.val.s = op.arg.val.s
        ELSE out = Returned(Bare(op.self.val), <<>>, 0)

\* C6 as stated: expect(msg) on NONE / Err raises ValueError(msg); for Err(e) the
\* raised error is never e and never of e's class; on Some / Ok it returns v.
C6_ExpectNeverOfHeldType ==
    op.name = "expect" =>
        /\ ExpectBasics
        /\ op.self.tag = "Err" =>
            /\ out.val.val.n # op.self.val.n
            /\ out.val.val.t # op.self.val.t

\* C6 amended: expect(msg) on NONE / Err raises a new ValueError whose first
\* argument is msg; for Err(e) the raised error is never the object e, and it is a
\* ValueError whatever the class of e (so of e's class exactly when e is a
\* ValueError); on Some / Ok it returns v.
C6_ExpectRaisesNewValueError ==
    op.name = "expect" =>
        /\ ExpectBasics
        /\ op.self.tag = "Err" =>
            /\ out.val.val.n # op.self.val.n
            /\ out.val.val.n >= op.fresh
            /\ (out.val.val.t = op.self.val.t) <=> (op.self.val.t = "ValueError")

\* Err(ValueError("some error")).expect("some error"): a ValueError comes out.
C6_Witness ==
    /\ op.name = "expect" /\ op.self.tag = "Err" /\ op.self.val.t = "ValueError"
    /\ op.arg.val.s = op.self.val.s
    /\ out.raised /\ out.val.val.t = "ValueError"

\* C7: a function decorated by as_option is called exactly once, with the very
\* positional and keyword arguments of the call; the result is the module-level NONE
\* iff it returned None, and Some(r) for every other r, falsy ones included.
C7_AsOption ==
    op.name = "as_option" =>
        /\ out.calls = <<CallKw(op.f, op.args, op.kw)>>
        /\ ~Wrapped.raised =>
            /\ ~out.raised
            /\ (out.val = NONE) <=> (Wrapped.val = Bare(PyNone))
            /\ Wrapped.val # Bare(PyNone) =>
                out.val.tag = "Some" /\ out.val.val = Wrapped.val.val

\* echo called with data=0 gives Some(0).
C7_Witness ==
    /\ op.name = "as_option" /\ op.f = "echo" /\ op.args = <<>>
    /\ op.kw = {[k |-> "data", v |-> Bare(PyInt(0))]}
    /\ ~out.raised /\ out.val.tag = "Some" /\ out.val.val = PyInt(0)

\* C8: a comparison with a wrapper never raises and is true only for the same
\* variant with equal payloads: Some / Ok by payload equality, Err by the error's
\* own equality (identity), NONE with NONE; across variants or types it is false.
C8_Equality ==
    op.name \in {"eq", "req"} =>
        /\ ~out.raised
        /\ out.val.val.t = "bool"
        /\ IsTrue(out.val) <=>
            /\ op.self.tag = op.arg.tag
            /\ CASE op.self.tag = "NONE" -> TRUE
                 [] op.self.tag = "Err" -> op.self.val.n = op.arg.val.n
                 [] OTHER -> PyEq(op.self.val, op.arg.val)

\* Two Errs of two separately built errors of the same class and message: unequal.
C8_Witness ==
    /\ op.name = "eq" /\ op.self.tag = "Err" /\ op.arg.tag = "Err"
    /\ op.self.val.t = op.arg.val.t /\ op.self.val.s = op.arg.val.s
    /\ op.self.val.n # op.arg.val.n
    /\ out = Returned(Bare(PyBool(FALSE)), <<>>, 2)

\* C9 as stated: with no selector, every failure the decorated function raises, of
\* whatever kind, comes back as Err(that failure) and none propagates.
C9_DefaultCatchesEverything ==
    (op.name = "as_result" /\ op.sel = {} /\ Wrapped.raised) =>
        ~out.raised /\ out.val.tag = "Err" /\ out.val.val = Wrapped.val.val

\* C9 amended: with no selector the selector is Exception: a failure that is an
\* instance of Exception comes back as Err(that failure) and does not propagate; a
\* failure that is not (KeyboardInterrupt) is not caught and propagates unchanged.
C9_DefaultCatchesException ==
    (op.name = "as_result" /\ op.sel = {} /\ Wrapped.raised) =>
        IF "Exception" \in ClassesOf(Wrapped.val.val.t)
            THEN ~out.raised /\ out.val.tag = "Err" /\ out.val.val = Wrapped.val.val
            ELSE out.raised /\ out.val = Wrapped.val

\* as_result() around alt_sample_function, called with "c": Err(AttributeError).
C9_Witness ==
    /\ op.name = "as_result" /\ op.sel = {} /\ op.f = "alt_sample_function"
    /\ ~out.raised /\ out.val.tag = "Err" /\ out.val.val.t = "AttributeError"

TotalOps == {"is_some", "is_none", "is_ok", "is_err", "ok", "err", "unwrap_or"}
CallbackOps == {"unwrap_or_else", "map", "map_error"}
AccessorOps == {"unwrap", "value", "expect"}

\* What C10 says of unwrap / value / expect, shared by both forms: they raise on
\* NONE / Err and only there, at once (no callable is involved).
AccessorBasics ==
    op.name \in AccessorOps =>
        /\ out.raised <=> op.self.tag \in {"NONE", "Err"}
        /\ out.calls = <<>>

\* C10 as stated: no method other than unwrap / value / expect ever fails.
C10_OnlyAccessorsFail ==
    /\ AccessorBasics
    /\ op.name \in TotalOps \cup CallbackOps => ~out.raised

\* C10 amended: is_some, is_none, is_ok, is_err, ok, err and unwrap_or never fail;
\* unwrap_or_else, map and map_error fail only when the callable they invoke raises,
\* and then with that very failure; unwrap / value / expect fail at once, exactly on
\* NONE / Err.
C10_OnlyAccessorsAndCallablesFail ==
    /\ AccessorBasics
    /\ op.name \in TotalOps => ~out.raised
    /\ (op.name \in CallbackOps /\ out.raised) =>
        /\ Len(out.calls) = 1
        /\ \E k \in op.fresh .. op.fresh + 1 :
            LET r == Apply(out.calls[1].fn, out.calls[1].args, k)
            IN  r.raised /\ r.val = out.val

\* Err(e).ok() gives NONE and raises nothing.
C10_Witness ==
    /\ op.name = "ok" /\ op.self.tag = "Err"
    /\ out = Returned(NONE, <<>>, 0)
====
